---- MODULE Spec2Model ----
(***************************************************************************)
(* Model of the Cricbuzz_livestats dashboard pages:                        *)
(*   pages/top_stats.py   - player lookup flow and stats-table normalizer  *)
(*   pages/sql_queries.py - query catalog flow                             *)
(***************************************************************************)
EXTENDS Integers, Sequences, FiniteSets, TLC

\* ------------------------------------------------------------------------
\* Bounds of the model
\* ------------------------------------------------------------------------
MaxHeaders == 2
MaxRows == 2
MaxCells == 2
MaxCandidates == 2
MaxQueryLen == 2

\* ------------------------------------------------------------------------
\* Decoded JSON / Python values.  Every value is a record [t, v]: t is the
\* Python type, v the payload.  A dict is the sequence of its (key, value)
\* pairs in insertion order, a list the sequence of its items.
\* ------------------------------------------------------------------------
Null == [t |-> "null", v |-> <<>>]
Num(n) == [t |-> "num", v |-> <<n>>]
Str(s) == [t |-> "str", v |-> <<s>>]
List(items) == [t |-> "list", v |-> items]
Dict(pairs) == [t |-> "dict", v |-> pairs]

\* All sequences over S of length 0..n
SeqUpTo(S, n) == UNION {[1..k -> S] : k \in 0..n}

\* Number of characters of the strings the model iterates over
StrLen(s) == CASE s = "" -> 0 [] s = "x" -> 1

\* bool(x)
Truthy(x) ==
    CASE x.t = "null" -> FALSE
      [] x.t = "num" -> x.v[1] # 0
      [] x.t = "str" -> x.v[1] # ""
      [] x.t = "list" -> Len(x.v) > 0
      [] x.t = "dict" -> Len(x.v) > 0

\* dict helpers: key in d, d[key]
HasKey(d, k) == \E i \in DOMAIN d.v : d.v[i][1] = k
Get(d, k) == d.v[CHOOSE i \in DOMAIN d.v : d.v[i][1] = k][2]

\* `k in x` for a str key k: defined on containers, TypeError on the rest
SupportsIn(x) == x.t \in {"dict", "list"}
In(k, x) ==
    CASE x.t = "dict" -> HasKey(x, k)
      [] x.t = "list" -> \E i \in DOMAIN x.v : x.v[i] = Str(k)

\* `for item in x`: the items of a list, the keys of a dict, the characters
\* of a str (each a str); TypeError on the rest
Iterable(x) == x.t \in {"dict", "list", "str"}
Iter(x) ==
    CASE x.t = "list" -> x.v
      [] x.t = "dict" -> [i \in DOMAIN x.v |-> Str(x.v[i][1])]
      [] x.t = "str" -> [i \in 1..StrLen(x.v[1]) |-> Str("x")]

\* ------------------------------------------------------------------------
\* Results of a call: a returned value or a raised exception
\* ------------------------------------------------------------------------
Returned(val) == [exc |-> "none", val |-> val]
Raised(e) == [exc |-> e, val |-> <<>>]

\* ------------------------------------------------------------------------
\* pandas.DataFrame as used by parse_stats_table
\* ------------------------------------------------------------------------
Frame(columns, rows) == [columns |-> columns, rows |-> rows]
EmptyFrame == Frame(<<>>, <<>>)

Max(S) == CHOOSE m \in S : \A n \in S : n <= m

\* pd.DataFrame(rows, columns=headers) for rows a list of lists.
\* Ragged rows are padded with None to the longest row; a column list whose
\* length differs from that width raises ValueError; columns=None gives the
\* default labels 0..width-1; a scalar as columns raises TypeError.
DataFrame(rows, headers) ==
    LET width == IF Len(rows) = 0 THEN 0 ELSE Max({Len(rows[i].v) : i \in DOMAIN rows})
        padded == [i \in DOMAIN rows |->
                     [j \in 1..width |-> IF j <= Len(rows[i].v) THEN rows[i].v[j] ELSE Null]]
    IN CASE headers.t = "list" ->
              IF Len(rows) = 0 THEN Returned(Frame(headers.v, <<>>))
              ELSE IF Len(headers.v) # width THEN Raised("ValueError")
              ELSE Returned(Frame(headers.v, padded))
         [] headers.t = "null" ->
              Returned(Frame([j \in 1..width |-> Num(j - 1)], padded))
         [] headers.t \in {"num", "str"} -> Raised("TypeError")

\* df.empty
IsEmpty(df) == Len(df.columns) = 0 \/ Len(df.rows) = 0

\* ------------------------------------------------------------------------
\* top_stats.py: parse_stats_table
\* ------------------------------------------------------------------------
\* row["values"] of one entry: TypeError unless the entry is a dict,
\* KeyError when the key is missing
RowValues(row) ==
    IF row.t # "dict" THEN Raised("TypeError")
    ELSE IF ~HasKey(row, "values") THEN Raised("KeyError")
    ELSE Returned(Get(row, "values"))

\* RowsOf collecting the rows last entry first
RowsOfReversed(values) ==
    IF ~Iterable(values) THEN Raised("TypeError")
    ELSE LET items == Iter(values)
             bad == {i \in DOMAIN items : RowValues(items[i]).exc # "none"}
         IN IF bad # {} THEN Raised(RowValues(items[CHOOSE i \in bad : \A j \in bad : i <= j]).exc)
            ELSE Returned([i \in DOMAIN items |-> RowValues(items[Len(items) + 1 - i]).val])

\* rows = [row["values"] for row in stats_json["values"]]
RowsOf(values) ==
    IF ~Iterable(values) THEN Raised("TypeError")
    ELSE LET items == Iter(values)
             bad == {i \in DOMAIN items : RowValues(items[i]).exc # "none"}
         IN IF bad # {} THEN Raised(RowValues(items[CHOOSE i \in bad : \A j \in bad : i <= j]).exc)
            ELSE Returned([i \in DOMAIN items |-> RowValues(items[i]).val])

parse_stats_table(stats_json) ==
    IF ~Truthy(stats_json) THEN Returned(EmptyFrame)
    ELSE IF ~SupportsIn(stats_json) THEN Raised("TypeError")
    ELSE IF ~In("headers", stats_json) \/ ~In("values", stats_json) THEN Returned(EmptyFrame)
    ELSE IF stats_json.t # "dict" THEN Raised("TypeError")
    ELSE LET headers == Get(stats_json, "headers")
             rows == RowsOf(Get(stats_json, "values"))
         IN IF rows.exc # "none" THEN rows
            ELSE DataFrame(rows.val, headers)

\* ------------------------------------------------------------------------
\* Inputs of the normalizer
\* ------------------------------------------------------------------------
HeaderLabels == {"Test", "ODI"}
CellValues == {Str("Matches"), Str("113")}

Entry(cells) == Dict(<< <<"values", List(cells)>> >>)
StatsJson(headers, values) == Dict(<< <<"headers", headers>>, <<"values", values>> >>)

HeaderLists == {List([i \in DOMAIN hs |-> Str(hs[i])]) : hs \in SeqUpTo(HeaderLabels, MaxHeaders)}
EntryLists == {List(es) : es \in SeqUpTo({Entry(c) : c \in SeqUpTo(CellValues, MaxCells)}, MaxRows)}

WellFormedInputs == {StatsJson(h, vs) : h \in HeaderLists, vs \in EntryLists}

NonLists == {Null, Num(5), Str(""), Str("x"), Dict(<<>>)}
SmallHeaderLists == {List(<<>>), List(<<Str("Test")>>)}
SmallEntryLists == {List(<<>>), List(<<Entry(<<Str("113")>>)>>)}

MalformedInputs ==
    {Null, Dict(<<>>), List(<<>>), Num(0), Str(""), Num(5),
     List(<<Str("headers"), Str("values")>>)}
    \cup {Dict(<< <<"values", vs>> >>) : vs \in SmallEntryLists}
    \cup {Dict(<< <<"headers", h>> >>) : h \in SmallHeaderLists}
    \cup {StatsJson(h, vs) : h \in NonLists \ {Dict(<<>>)}, vs \in SmallEntryLists}
    \cup {StatsJson(h, vs) : h \in SmallHeaderLists, vs \in NonLists}
    \cup {StatsJson(h, List(<<e>>)) : h \in SmallHeaderLists, e \in {Num(1), Dict(<<>>)}}

StatsInputs == WellFormedInputs \cup MalformedInputs

\* ------------------------------------------------------------------------
\* HTTP responses.  http.client responses are read as a body only (the status
\* is never looked at); requests responses carry status and body.  A body
\* either decodes as JSON to val or does not decode.
\* ------------------------------------------------------------------------
Body(val) == [valid |-> TRUE, val |-> val]
BadBody == [valid |-> FALSE, val |-> Null]
Response(status, body) == [status |-> status, body |-> body]

\* try: return json.loads(data.decode("utf-8"))  except: return {}
LoadsOrEmpty(body) == IF body.valid THEN body.val ELSE Dict(<<>>)

\* top_stats.py: search_players / get_player_details (same decoding)
search_players(body) == LoadsOrEmpty(body)
get_player_details(body) == LoadsOrEmpty(body)

\* top_stats.py: get_player_stats; response.json() raises on an undecodable body
get_player_stats(response) ==
    IF response.status = 200
    THEN IF response.body.valid THEN Returned(response.body.val) ELSE Raised("JSONDecodeError")
    ELSE Returned(Dict(<<>>))

\* ------------------------------------------------------------------------
\* Rendering: what a stretch of the page script puts on the screen, and the
\* exception that ended it, if any
\* ------------------------------------------------------------------------
Item(w, a, b) == [w |-> w, a |-> a, b |-> b]
Shown(items) == [items |-> items, exc |-> "none"]
Faulted(items, e) == [items |-> items, exc |-> e]
Then(r1, r2) ==
    IF r1.exc # "none" THEN r1 ELSE [items |-> r1.items \o r2.items, exc |-> r2.exc]

NA == Str("N/A")
\* d.get(k, default)
GetOr(d, k, default) == IF HasKey(d, k) THEN Get(d, k) ELSE default

\* str.replace("http://", "https://") on the image links of the model
HttpsOf(s) == IF s = "http://img/1.jpg" THEN "https://img/1.jpg" ELSE s

\* lines 86-87: name (team) and date of birth of the selected candidate
RenderHeader(selected_player) ==
    IF ~HasKey(selected_player, "teamName") THEN Faulted(<<>>, "KeyError")
    ELSE Shown(<<Item("write", "title",
                      List(<<Get(selected_player, "name"), Get(selected_player, "teamName")>>)),
                 Item("write", "DOB", GetOr(selected_player, "dob", NA))>>)

\* lines 90-98: image link, face image id, or the placeholder
RenderImage(selected_player, player_details) ==
    IF ~SupportsIn(player_details) THEN Faulted(<<>>, "TypeError")
    ELSE IF In("image", player_details)
    THEN IF player_details.t # "dict" THEN Faulted(<<>>, "TypeError")
         ELSE IF Get(player_details, "image").t # "str" THEN Faulted(<<>>, "AttributeError")
         ELSE Shown(<<Item("image", "url", Str(HttpsOf(Get(player_details, "image").v[1])))>>)
    ELSE IF HasKey(selected_player, "faceImageId") /\ Truthy(Get(selected_player, "faceImageId"))
    THEN Shown(<<Item("image", "face", Get(selected_player, "faceImageId"))>>)
    ELSE Shown(<<Item("image", "placeholder", Null)>>)

\* lines 101-106: the five profile fields, each with its N/A default
DetailFields == <<"role", "bat", "bowl", "teams", "birthPlace">>
RenderDetails(player_details) ==
    IF player_details.t # "dict"
    THEN Faulted(<<Item("subheader", "Player Details", Null)>>, "AttributeError")
    ELSE Shown(<<Item("subheader", "Player Details", Null)>> \o
               [i \in DOMAIN DetailFields |->
                   Item("write", DetailFields[i], GetOr(player_details, DetailFields[i], NA))])

\* lines 115-137: one rankings column
RenderDiscipline(rankings, key) ==
    LET title == <<Item("write", "rankings title", Str(key))>>
    IN IF ~SupportsIn(rankings) THEN Faulted(title, "TypeError")
       ELSE IF In(key, rankings)
       THEN IF rankings.t # "dict" THEN Faulted(title, "TypeError")
            ELSE IF Get(rankings, key).t # "dict" THEN Faulted(title, "AttributeError")
            ELSE LET cats == Get(rankings, key).v
                 IN Shown(title \o [i \in DOMAIN cats |->
                                      Item("write", key, List(<<Str(cats[i][1]), cats[i][2]>>))])
       ELSE Shown(title \o <<Item("write", key, Str("No rankings available"))>>)

\* lines 109-137: the rankings section
RenderRankings(player_details) ==
    IF In("rankings", player_details) /\ Truthy(Get(player_details, "rankings"))
    THEN LET rankings == Get(player_details, "rankings")
         IN Then(Shown(<<Item("subheader", "ICC Rankings", Null)>>),
            Then(RenderDiscipline(rankings, "bat"),
            Then(RenderDiscipline(rankings, "bowl"),
                 RenderDiscipline(rankings, "all"))))
    ELSE Shown(<<>>)

\* lines 85-137: the profile tab up to the career request
RenderProfile(selected_player, player_details) ==
    Then(RenderHeader(selected_player),
    Then(RenderImage(selected_player, player_details),
         IF Truthy(player_details)
         THEN Then(RenderDetails(player_details), RenderRankings(player_details))
         ELSE Shown(<<>>)))

\* lines 147-163: the career table, every exception caught by the bare except
CareerColumns == <<Str("Format"), Str("Debut"), Str("Last Played")>>
\* the career row with debut and last played exchanged
CareerRowSwapped(f) == List(<<GetOr(f, "name", Null), GetOr(f, "lastPlayed", Null), GetOr(f, "debut", Null)>>)

\* line 152: one row of the career table
CareerRow(f) == List(<<GetOr(f, "name", Null), GetOr(f, "debut", Null), GetOr(f, "lastPlayed", Null)>>)
CouldNotLoad == <<Item("warning", "Could not load career debut information.", Null)>>
NoCareer == <<Item("warning", "No career debut information available.", Null)>>
RenderCareer(body) ==
    IF ~body.valid THEN CouldNotLoad
    ELSE LET career_json == body.val
         IN IF ~SupportsIn(career_json) THEN CouldNotLoad
            ELSE IF ~In("values", career_json) THEN NoCareer
            ELSE IF career_json.t # "dict" THEN CouldNotLoad
            ELSE IF ~Truthy(Get(career_json, "values")) THEN NoCareer
            ELSE LET values == Get(career_json, "values")
                 IN IF ~Iterable(values) THEN CouldNotLoad
                    ELSE IF \E i \in DOMAIN Iter(values) : Iter(values)[i].t # "dict"
                    THEN CouldNotLoad
                    ELSE LET career_rows == [i \in DOMAIN Iter(values) |-> CareerRow(Iter(values)[i])]
                         IN <<Item("dataframe", "career",
                                   DataFrame(career_rows, List(CareerColumns)).val)>>

\* lines 165-166
RenderWebLink(player_details) ==
    IF In("webURL", player_details)
    THEN <<Item("markdown", "View on Cricbuzz", Get(player_details, "webURL"))>>
    ELSE <<>>

\* lines 169-176 and 179-186: one stats tab
RenderStatsTab(stat_type, response) ==
    LET head == <<Item("subheader", stat_type, Null)>>
        stats == get_player_stats(response)
        df == parse_stats_table(stats.val)
    IN IF stats.exc # "none" THEN Faulted(head, stats.exc)
       ELSE IF df.exc # "none" THEN Faulted(head, df.exc)
       ELSE IF ~IsEmpty(df.val) THEN Shown(head \o <<Item("dataframe", stat_type, df.val)>>)
       ELSE Shown(head \o <<Item("warning", stat_type, Str("No stats available."))>>)

\* the comprehension keeping the first candidate of a repeated name
RECURSIVE DictOfNamesFirstWins(_, _)
DictOfNamesFirstWins(players, acc) ==
    IF players = <<>> THEN Returned(acc)
    ELSE LET p == Head(players)
         IN IF p.t # "dict" THEN Raised("TypeError")
            ELSE IF ~HasKey(p, "name") THEN Raised("KeyError")
            ELSE LET name == Get(p, "name")
                 IN DictOfNamesFirstWins(Tail(players),
                        IF \E i \in DOMAIN acc : acc[i][1] = name THEN acc
                        ELSE Append(acc, <<name, p>>))

\* line 77: player_options = {p["name"]: p for p in results["player"]}.
\* A repeated key keeps its first position and takes the later value.
RECURSIVE DictOfNames(_, _)
DictOfNames(players, acc) ==
    IF players = <<>> THEN Returned(acc)
    ELSE LET p == Head(players)
         IN IF p.t # "dict" THEN Raised("TypeError")
            ELSE IF ~HasKey(p, "name") THEN Raised("KeyError")
            ELSE LET name == Get(p, "name")
                     at == {i \in DOMAIN acc : acc[i][1] = name}
                 IN DictOfNames(Tail(players),
                        IF at = {} THEN Append(acc, <<name, p>>)
                        ELSE [i \in DOMAIN acc |-> IF i \in at THEN <<name, p>> ELSE acc[i]])

\* lines 76-77: the candidate set of a search result: an exception, no
\* candidates ("No players found"), or the name -> candidate mapping
NoPlayers == Returned(<<>>)
player_options_of(results) ==
    IF ~SupportsIn(results) THEN Raised("TypeError")
    ELSE IF ~In("player", results) THEN NoPlayers
    ELSE IF results.t # "dict" THEN Raised("TypeError")
    ELSE IF ~Truthy(Get(results, "player")) THEN NoPlayers
    ELSE IF ~Iterable(Get(results, "player")) THEN Raised("TypeError")
    ELSE DictOfNames(Iter(Get(results, "player")), <<>>)

\* ------------------------------------------------------------------------
\* Responses of the stats API in the player lookup flow
\* ------------------------------------------------------------------------
Kohli1 == Dict(<< <<"id", Num(1)>>, <<"name", Str("Kohli")>>, <<"teamName", Str("India")>>,
                  <<"dob", Str("1988-11-05")>>, <<"faceImageId", Num(11)>> >>)
Kohli2 == Dict(<< <<"id", Num(2)>>, <<"name", Str("Kohli")>>, <<"teamName", Str("Delhi")>> >>)
Smith == Dict(<< <<"id", Num(3)>>, <<"name", Str("Smith")>> >>)
Nameless == Dict(<< <<"id", Num(4)>>, <<"teamName", Str("Australia")>> >>)
Candidates == {Kohli1, Kohli2, Smith, Nameless}

ErrorMessage == Dict(<< <<"message", Str("You are not subscribed to this API.")>> >>)

SearchBodies ==
    {BadBody}
    \cup {Body(v) : v \in {Null, Num(5), List(<<>>), Dict(<<>>), ErrorMessage}}
    \cup {Body(Dict(<< <<"player", List(cs)>> >>)) : cs \in SeqUpTo(Candidates, MaxCandidates)}

Ranks == Dict(<< <<"testRank", Str("1")>>, <<"odiBestRank", Str("2")>> >>)
FullRankings == Dict(<< <<"bat", Ranks>>, <<"bowl", Ranks>>, <<"all", Ranks>> >>)
FullDetails(rankings) ==
    Dict(<< <<"image", Str("http://img/1.jpg")>>, <<"role", Str("Batsman")>>,
            <<"bat", Str("Right Handed Bat")>>, <<"bowl", Str("Right-arm medium")>>,
            <<"teams", Str("India, Delhi")>>, <<"birthPlace", Str("Delhi")>>,
            <<"webURL", Str("http://www.cricbuzz.com/profiles/1")>>,
            <<"rankings", rankings>> >>)

DetailBodies ==
    {BadBody, Body(Null), Body(Dict(<<>>)), Body(ErrorMessage),
     Body(Dict(<< <<"role", Str("Batsman")>> >>)),
     Body(Dict(<< <<"image", Null>>, <<"role", Str("Batsman")>> >>))}
    \cup {Body(FullDetails(r)) :
            r \in {FullRankings, Null, Dict(<<>>), Dict(<< <<"bat", Ranks>> >>),
                   Dict(<< <<"bat", Null>>, <<"bowl", Ranks>> >>)}}

CareerEntry == Dict(<< <<"name", Str("Test")>>, <<"debut", Str("2011")>>,
                       <<"lastPlayed", Str("2024")>> >>)
CareerBodies ==
    {BadBody, Body(Null), Body(Dict(<<>>)),
     Body(Dict(<< <<"values", List(<<>>)>> >>)),
     Body(Dict(<< <<"values", List(<<CareerEntry, Dict(<< <<"name", Str("ODI")>> >>)>>)>> >>))}

StatsTable == StatsJson(List(<<Str("ROWHEADER"), Str("Test")>>),
                        List(<<Entry(<<Str("Matches"), Str("113")>>)>>))
StatsResponses ==
    {Response(404, Body(ErrorMessage)), Response(200, BadBody),
     Response(200, Body(Dict(<<>>))), Response(200, Body(StatsTable)),
     Response(200, Body(StatsJson(List(<<Str("Test")>>), List(<<>>)))),
     Response(200, Body(StatsJson(List(<<Str("Test")>>), Null)))}

\* ------------------------------------------------------------------------
\* sql_queries.py: texts and the catalog.  A text is the sequence of its
\* pieces; the piece " " is a run of whitespace, any other piece is free of
\* whitespace at its ends.
\* ------------------------------------------------------------------------
Whitespace == {" "}

RECURSIVE LStrip(_)
LStrip(text) == IF text # <<>> /\ Head(text) \in Whitespace THEN LStrip(Tail(text)) ELSE text
RECURSIVE RStrip(_)
RStrip(text) ==
    IF text # <<>> /\ text[Len(text)] \in Whitespace
    THEN RStrip(SubSeq(text, 1, Len(text) - 1)) ELSE text
\* strip() left out of the blank test
NoStrip(text) == text

\* str.strip()
Strip(text) == RStrip(LStrip(text))

\* QUERIES: description -> SQL text; every text of the catalog is a
\* triple-quoted block that opens and closes with a newline and indentation
Catalog ==
    [d \in {"Q1: List all Indian players", "Q3: Top 10 ODI run scorers",
            "Q20: Matches & batting avg by format (players with >=20 matches)"} |->
        CASE d = "Q1: List all Indian players" ->
                <<" ", "SELECT full_name ... FROM players WHERE country = 'India';", " ">>
          [] d = "Q3: Top 10 ODI run scorers" ->
                <<" ", "SELECT player_name ... FROM top_odi_runs ORDER BY total_runs DESC LIMIT 10;", " ">>
          [] OTHER ->
                <<" ", "WITH player_format_stats AS ... SELECT * FROM player_summary ...;", " ">>]

\* what the user may type into the text area instead
TypedPieces == {" ", "SELECT 1;"}
TypedTexts == SeqUpTo(TypedPieces, MaxQueryLen)

\* what pd.read_sql does with a text: a table, or an exception
QueryTables == {Frame(<<Str("player_name")>>, <<>>),
                Frame(<<Str("player_name")>>, <<<<Str("Kohli")>>>>)}
ReadSqlOutcomes == {Returned(df) : df \in QueryTables}
                   \cup {Raised("DatabaseError"), Raised("OperationalError")}

\* a call made to the database driver
DbCall(op, arg) == [op |-> op, arg |-> arg]

\* run_query handing the stripped text to pd.read_sql
run_query_stripped(query, outcome) ==
    IF outcome.exc = "none"
    THEN [call |-> DbCall("read_sql", Strip(query)), items |-> <<>>, df |-> outcome.val]
    ELSE [call |-> DbCall("read_sql", Strip(query)),
          items |-> <<Item("error", "Query Error", Str(outcome.exc))>>, df |-> Null]

\* run_query returning an empty table, not None, after an exception
run_query_empty_table(query, outcome) ==
    IF outcome.exc = "none"
    THEN [call |-> DbCall("read_sql", query), items |-> <<>>, df |-> outcome.val]
    ELSE [call |-> DbCall("read_sql", query),
          items |-> <<Item("error", "Query Error", Str(outcome.exc))>>, df |-> EmptyFrame]

\* lines 33-40: run_query: pd.read_sql(query, conn) gives the table, or
\* raises and the error message is shown and None returned
run_query(query, outcome) ==
    IF outcome.exc = "none"
    THEN [call |-> DbCall("read_sql", query), items |-> <<>>, df |-> outcome.val]
    ELSE [call |-> DbCall("read_sql", query),
          items |-> <<Item("error", "Query Error", Str(outcome.exc))>>, df |-> Null]

\* ------------------------------------------------------------------------
\* State
\* ------------------------------------------------------------------------
VARIABLES
    page,             \* the page being run
    pc,               \* position of the page script
    screen,           \* what the page has rendered so far, in order
    fault,            \* the exception that escaped the page script, or "none"
    stats_json,       \* normalizer: the decoded payload
    parsed,           \* normalizer: what parse_stats_table returned or raised
    API_KEY,          \* top_stats: os.getenv("RAPIDAPI_KEY")
    player_name,      \* top_stats: the text input
    requests,         \* top_stats: HTTP requests issued, with their responses
    results,          \* top_stats: search_players(player_name)
    player_options,   \* top_stats: display name -> candidate
    selected_player,  \* top_stats: the chosen candidate
    player_details,   \* top_stats: get_player_details(...)
    QUERIES,          \* sql_queries: the catalog
    conn,             \* sql_queries: the connection of this page run
    db_calls,         \* sql_queries: calls made to the database driver, in order
    query_selection,  \* sql_queries: the select box
    query_input,      \* sql_queries: the text area
    edited,           \* sql_queries: the user typed over the text area
    pressed,          \* sql_queries: what the Run Query button returned
    database,         \* catalog: the rows of the table the query reads
    query_result      \* catalog: the rows the query returns

vars == <<page, pc, screen, fault, stats_json, parsed, API_KEY, player_name, requests,
          results, player_options, selected_player, player_details,
          QUERIES, conn, db_calls, query_selection, query_input, edited,
          pressed, database, query_result>>

catalogVars == <<database, query_result>>
queryVars == <<QUERIES, conn, db_calls, query_selection, query_input, edited, pressed>>
lookupVars == <<API_KEY, player_name, requests, results, player_options, selected_player,
                player_details>>
statsVars == <<stats_json, parsed>>

NoCall == Raised("not called")

LookupIdle ==
    /\ player_name = Str("")
    /\ requests = <<>>
    /\ results = Null
    /\ player_options = <<>>
    /\ selected_player = Null
    /\ player_details = Null

StatsIdle ==
    /\ stats_json = Null
    /\ parsed = NoCall

CatalogIdle ==
    /\ database = <<>>
    /\ query_result = <<>>

QueryIdle ==
    /\ QUERIES = Catalog
    /\ conn = "none"
    /\ db_calls = <<>>
    /\ query_selection = ""
    /\ query_input = <<>>
    /\ edited = FALSE
    /\ pressed = FALSE

\* ------------------------------------------------------------------------
\* Normalizer called on one decoded stats payload
\* ------------------------------------------------------------------------
InitStats ==
    /\ page = "normalizer"
    /\ pc = "call"
    /\ screen = <<>>
    /\ fault = "none"
    /\ stats_json \in StatsInputs
    /\ parsed = NoCall
    /\ API_KEY = Str("key")
    /\ LookupIdle
    /\ QueryIdle
    /\ CatalogIdle

CallParseStatsTable ==
    /\ page = "normalizer"
    /\ pc = "call"
    /\ parsed' = parse_stats_table(stats_json)
    /\ pc' = IF parsed'.exc = "none" THEN "returned" ELSE "raised"
    /\ UNCHANGED <<page, screen, fault, stats_json, lookupVars, queryVars, catalogVars>>

NextStats == CallParseStatsTable

SpecStats == InitStats /\ [][NextStats]_vars

\* ------------------------------------------------------------------------
\* top_stats.py: the player lookup page
\* ------------------------------------------------------------------------
Request(ep, arg, resp) == [ep |-> ep, arg |-> arg, resp |-> resp]

InitLookup ==
    /\ page = "top_stats"
    /\ pc = "load"
    /\ screen = <<>>
    /\ fault = "none"
    /\ API_KEY \in {Null, Str(""), Str("key")}
    /\ LookupIdle
    /\ StatsIdle
    /\ QueryIdle
    /\ CatalogIdle

\* The script goes on rendering, or stops with the exception shown
Continue(rendered, next) ==
    /\ screen' = screen \o rendered.items
    /\ fault' = rendered.exc
    /\ pc' = IF rendered.exc = "none" THEN next ELSE "fault"

\* lines 10-15: module load; st.stop() ends the script when the key is missing
LoadModule ==
    /\ page = "top_stats"
    /\ pc = "load"
    /\ IF ~Truthy(API_KEY)
       THEN /\ screen' = Append(screen, Item("error", "RAPIDAPI_KEY not found", Null))
            /\ pc' = "stopped"
       ELSE /\ screen' = screen
            /\ pc' = "input"
    /\ UNCHANGED <<page, fault, statsVars, catalogVars, lookupVars, queryVars>>

\* lines 68-73: the text input
EnterName ==
    /\ page = "top_stats"
    /\ pc = "input"
    /\ \E name \in {Str(""), Str("Kohli")} :
          /\ player_name' = name
          /\ pc' = IF Truthy(name) THEN "search" ELSE "done"
    /\ screen' = Append(screen, Item("title", "Player Stats & Profile", Null))
    /\ UNCHANGED <<page, fault, statsVars, catalogVars, queryVars, API_KEY, requests, results, player_options,
                   selected_player, player_details>>

\* line 74: results = search_players(player_name)
SearchPlayers ==
    /\ page = "top_stats"
    /\ pc = "search"
    /\ \E body \in SearchBodies :
          /\ requests' = Append(requests, Request("search", player_name, body))
          /\ results' = search_players(body)
    /\ pc' = "resolve"
    /\ UNCHANGED <<page, screen, fault, statsVars, catalogVars, queryVars, API_KEY, player_name, player_options,
                   selected_player, player_details>>

\* lines 76-79 and 187-188: the candidate set and the select box
ResolvePlayer ==
    /\ page = "top_stats"
    /\ pc = "resolve"
    /\ LET options == player_options_of(results)
       IN IF options.exc # "none"
          THEN /\ Continue(Faulted(<<>>, options.exc), "fault")
               /\ UNCHANGED <<player_options, selected_player>>
          ELSE IF options.val = <<>>
          THEN /\ Continue(Shown(<<Item("warning", "No players found. Try another name.", Null)>>),
                           "done")
               /\ UNCHANGED <<player_options, selected_player>>
          ELSE /\ player_options' = options.val
               /\ \E i \in DOMAIN options.val :
                     selected_player' = options.val[i][2]
               /\ Continue(Shown(<<Item("selectbox", "Select a player:",
                                        List([i \in DOMAIN options.val |-> options.val[i][1]]))>>),
                           "details")
    /\ UNCHANGED <<page, statsVars, catalogVars, queryVars, API_KEY, player_name, requests, results, player_details>>

\* the profile requested for the first candidate of the response, whatever
\* the select box says
FetchDetailsFirstCandidate ==
    /\ page = "top_stats"
    /\ pc = "details"
    /\ IF ~HasKey(selected_player, "id")
       THEN /\ Continue(Faulted(<<>>, "KeyError"), "fault")
            /\ UNCHANGED <<requests, player_details>>
       ELSE /\ \E body \in DetailBodies :
                  /\ requests' = Append(requests,
                        Request("profile", Get(Get(results, "player").v[1], "id"), body))
                  /\ player_details' = get_player_details(body)
            /\ Continue(Shown(<<Item("tabs", "Profile, Batting Stats, Bowling Stats", Null)>>),
                        "profile")
    /\ UNCHANGED <<page, statsVars, catalogVars, queryVars, API_KEY, player_name, results, player_options,
                   selected_player>>

\* line 80: player_details = get_player_details(selected_player["id"])
FetchDetails ==
    /\ page = "top_stats"
    /\ pc = "details"
    /\ IF ~HasKey(selected_player, "id")
       THEN /\ Continue(Faulted(<<>>, "KeyError"), "fault")
            /\ UNCHANGED <<requests, player_details>>
       ELSE /\ \E body \in DetailBodies :
                  /\ requests' = Append(requests, Request("profile", Get(selected_player, "id"), body))
                  /\ player_details' = get_player_details(body)
            /\ Continue(Shown(<<Item("tabs", "Profile, Batting Stats, Bowling Stats", Null)>>),
                        "profile")
    /\ UNCHANGED <<page, statsVars, catalogVars, queryVars, API_KEY, player_name, results, player_options,
                   selected_player>>

\* lines 85-137: the profile tab up to the career request
ShowProfile ==
    /\ page = "top_stats"
    /\ pc = "profile"
    /\ Continue(RenderProfile(selected_player, player_details),
                IF Truthy(player_details) THEN "career" ELSE "batting")
    /\ UNCHANGED <<page, statsVars, catalogVars, lookupVars, queryVars>>

\* the career request sent again when its body does not decode
ShowCareerRetry ==
    /\ page = "top_stats"
    /\ pc = "career"
    /\ \E first \in CareerBodies, body \in CareerBodies :
          /\ requests' = requests \o
                (IF first.valid THEN <<>>
                 ELSE <<Request("career", Get(selected_player, "id"), first)>>)
                \o <<Request("career", Get(selected_player, "id"), body)>>
          /\ Continue(Shown(<<Item("subheader", "Career Debut Information", Null)>>
                            \o RenderCareer(body) \o RenderWebLink(player_details)),
                      "batting")
    /\ UNCHANGED <<page, statsVars, catalogVars, queryVars, API_KEY, player_name, results, player_options,
                   selected_player, player_details>>

\* lines 139-166: the career request, its table and the web link
ShowCareer ==
    /\ page = "top_stats"
    /\ pc = "career"
    /\ \E body \in CareerBodies :
          /\ requests' = Append(requests, Request("career", Get(selected_player, "id"), body))
          /\ Continue(Shown(<<Item("subheader", "Career Debut Information", Null)>>
                            \o RenderCareer(body) \o RenderWebLink(player_details)),
                      "batting")
    /\ UNCHANGED <<page, statsVars, catalogVars, queryVars, API_KEY, player_name, results, player_options,
                   selected_player, player_details>>

\* lines 169-176: the batting tab
ShowBatting ==
    /\ page = "top_stats"
    /\ pc = "batting"
    /\ \E response \in StatsResponses :
          /\ requests' = Append(requests, Request("batting", Get(selected_player, "id"), response))
          /\ Continue(RenderStatsTab("batting", response), "bowling")
    /\ UNCHANGED <<page, statsVars, catalogVars, queryVars, API_KEY, player_name, results, player_options,
                   selected_player, player_details>>

\* lines 179-186: the bowling tab
ShowBowling ==
    /\ page = "top_stats"
    /\ pc = "bowling"
    /\ \E response \in StatsResponses :
          /\ requests' = Append(requests, Request("bowling", Get(selected_player, "id"), response))
          /\ Continue(RenderStatsTab("bowling", response), "done")
    /\ UNCHANGED <<page, statsVars, catalogVars, queryVars, API_KEY, player_name, results, player_options,
                   selected_player, player_details>>

show_top_stats ==
    \/ EnterName
    \/ SearchPlayers
    \/ ResolvePlayer
    \/ FetchDetails
    \/ ShowProfile
    \/ ShowCareer
    \/ ShowBatting
    \/ ShowBowling

NextLookup == LoadModule \/ show_top_stats

SpecLookup == InitLookup /\ [][NextLookup]_vars

\* ------------------------------------------------------------------------
\* sql_queries.py: the SQL analytics page
\* ------------------------------------------------------------------------
InitQuery ==
    /\ page = "sql_queries"
    /\ pc = "connect"
    /\ screen = <<>>
    /\ fault = "none"
    /\ API_KEY = Str("key")
    /\ LookupIdle
    /\ StatsIdle
    /\ QueryIdle
    /\ CatalogIdle

\* create_connection returning the connection without asking is_connected()
create_connection_unchecked(outcome) ==
    CASE outcome = "connected" -> [items |-> <<>>, conn |-> "open"]
      [] outcome = "not connected" -> [items |-> <<>>, conn |-> "open"]
      [] outcome = "error" ->
            [items |-> <<Item("error", "Error connecting to MySQL database", Null)>>,
             conn |-> "none"]

\* lines 10-30: create_connection: the connection when connect() returned one
\* that is connected; None, after an error message, when connect() raised
\* Error; None without a message when the connection is not connected
create_connection(outcome) ==
    CASE outcome = "connected" -> [items |-> <<>>, conn |-> "open"]
      [] outcome = "not connected" -> [items |-> <<>>, conn |-> "none"]
      [] outcome = "error" ->
            [items |-> <<Item("error", "Error connecting to MySQL database", Null)>>,
             conn |-> "none"]

\* lines 586-596: conn = create_connection(); the page returns without it
Connect ==
    /\ page = "sql_queries"
    /\ pc = "connect"
    /\ \E outcome \in {"connected", "not connected", "error"} :
          LET made == create_connection(outcome)
          IN /\ db_calls' = Append(db_calls, DbCall("connect", <<outcome>>))
             /\ conn' = made.conn
             /\ IF made.conn = "none"
                THEN /\ screen' = screen \o made.items \o
                            <<Item("warning", "Could not connect to the database.", Null)>>
                     /\ pc' = "done"
                ELSE /\ screen' = screen \o made.items
                     /\ pc' = "widgets"
    /\ UNCHANGED <<page, fault, statsVars, catalogVars, lookupVars, QUERIES, query_selection, query_input, edited,
                   pressed>>

\* lines 599-615: the select box, the text area filled with the selected
\* text or typed over, and the button
ChooseQuery ==
    /\ page = "sql_queries"
    /\ pc = "widgets"
    /\ \E d \in DOMAIN QUERIES :
          /\ query_selection' = d
          /\ \/ edited' = FALSE /\ query_input' = QUERIES[d]
             \/ edited' = TRUE /\ query_input' \in TypedTexts
    /\ \E button \in BOOLEAN :
          /\ pressed' = button
          /\ pc' = IF button THEN "run" ELSE "close"
    /\ UNCHANGED <<page, screen, fault, statsVars, catalogVars, lookupVars, QUERIES, conn, db_calls>>

\* lines 616-627: the button was pressed
RunQuery ==
    /\ page = "sql_queries"
    /\ pc = "run"
    /\ IF Strip(query_input) # <<>>
       THEN \E outcome \in ReadSqlOutcomes :
               LET ran == run_query(query_input, outcome)
               IN /\ db_calls' = Append(db_calls, ran.call)
                  /\ screen' = screen \o ran.items \o
                         (IF ran.df # Null
                          THEN <<Item("subheader", "Query Results", Null),
                                 Item("dataframe", "query", ran.df),
                                 Item("success", "Query executed successfully!", Null)>>
                          ELSE <<Item("error", "Query failed.", Null)>>)
       ELSE /\ screen' = Append(screen, Item("warning", "Please enter a query to run.", Null))
            /\ db_calls' = db_calls
    /\ pc' = "close"
    /\ UNCHANGED <<page, fault, statsVars, catalogVars, lookupVars, QUERIES, conn, query_selection,
                   query_input, edited, pressed>>

\* conn.close() moved under the button branch
CloseConnectionInButton ==
    /\ page = "sql_queries"
    /\ pc = "close"
    /\ IF pressed
       THEN /\ conn' = "closed"
            /\ db_calls' = Append(db_calls, DbCall("close", <<>>))
       ELSE UNCHANGED <<conn, db_calls>>
    /\ screen' = Append(screen, Item("subheader", "Available Tables", Null))
    /\ pc' = "done"
    /\ UNCHANGED <<page, fault, statsVars, catalogVars, lookupVars, QUERIES, query_selection, query_input, edited,
                   pressed>>

\* lines 629-655: conn.close() and the static help text
CloseConnection ==
    /\ page = "sql_queries"
    /\ pc = "close"
    /\ conn' = "closed"
    /\ db_calls' = Append(db_calls, DbCall("close", <<>>))
    /\ screen' = Append(screen, Item("subheader", "Available Tables", Null))
    /\ pc' = "done"
    /\ UNCHANGED <<page, fault, statsVars, catalogVars, lookupVars, QUERIES, query_selection, query_input, edited,
                   pressed>>

show_sql_queries == Connect \/ ChooseQuery \/ RunQuery \/ CloseConnection

NextQuery == show_sql_queries

SpecQuery == InitQuery /\ [][NextQuery]_vars

\* ------------------------------------------------------------------------
\* The dashboard: either page
\* ------------------------------------------------------------------------
Init == InitLookup \/ InitQuery
Next == NextLookup \/ NextQuery
Spec == Init /\ [][Next]_vars

\* ========================================================================
\* Properties of the stats-table normalizer (checked under SpecStats)
\* ========================================================================
Called == page = "normalizer" /\ pc \in {"returned", "raised"}

\* the malformed payloads: absent, null or empty; "headers" or "values"
\* missing; "headers" or "values" present but not a list
MalformedStats(x) ==
    \/ ~Truthy(x)
    \/ /\ x.t = "dict"
       /\ \/ ~HasKey(x, "headers")
          \/ ~HasKey(x, "values")
          \/ Get(x, "headers").t # "list"
          \/ Get(x, "values").t # "list"

\* the well-formed payloads: a list of headers and a list of entries, each
\* entry an object with a list of cells under "values"
WellFormedStats(x) ==
    /\ x.t = "dict"
    /\ HasKey(x, "headers") /\ Get(x, "headers").t = "list"
    /\ HasKey(x, "values") /\ Get(x, "values").t = "list"
    /\ \A i \in DOMAIN Get(x, "values").v :
          LET e == Get(x, "values").v[i]
          IN e.t = "dict" /\ HasKey(e, "values") /\ Get(e, "values").t = "list"

HeadersIn(x) == Get(x, "headers").v
CellsIn(x, i) == Get(Get(x, "values").v[i], "values").v
EntryCount(x) == Len(Get(x, "values").v)

\* C1: every malformed stats payload is normalized to the empty table (zero
\* headers, zero rows) and parse_stats_table does not raise.
C1_MalformedGivesEmptyTable ==
    (Called /\ MalformedStats(stats_json)) => parsed = Returned(EmptyFrame)

\* C2: for every well-formed payload with N headers and M entries, whatever
\* the number of cells of each entry, parse_stats_table does not fault and
\* returns exactly M rows, row i as long as the cells supplied in entry i.
C2_RowsKeepSuppliedCells ==
    (Called /\ WellFormedStats(stats_json)) =>
        /\ parsed.exc = "none"
        /\ Len(parsed.val.rows) = EntryCount(stats_json)
        /\ \A i \in 1..EntryCount(stats_json) :
              Len(parsed.val.rows[i]) = Len(CellsIn(stats_json, i))

\* every entry carries as many cells as there are headers
AlignedStats(x) ==
    /\ WellFormedStats(x)
    /\ \A i \in 1..EntryCount(x) : Len(CellsIn(x, i)) = Len(HeadersIn(x))

Lookup == page = "top_stats"
OnScreen(item) == \E i \in DOMAIN screen : screen[i] = item
RequestsTo(ep) == {i \in DOMAIN requests : requests[i].ep = ep}
LastEp == IF requests = <<>> THEN "none" ELSE requests[Len(requests)].ep

\* C4: the failure of one of the profile / career fetches does not keep the
\* other field groups from being fetched and rendered: once the page run has
\* ended with a candidate selected and the profile fetch (which supplies the
\* rankings) failed, the career request has been issued and its table or
\* warning is on the screen.
C4_FetchesIndependent ==
    (Lookup /\ pc = "done"
       /\ \E i \in RequestsTo("profile") : ~requests[i].resp.valid) =>
        /\ RequestsTo("career") # {}
        /\ \E i \in DOMAIN screen :
              screen[i].a \in {"career", CouldNotLoad[1].a, NoCareer[1].a}

\* the search responses with no candidate: not JSON, JSON but not an object,
\* no "player" key, or an empty "player" list
NoCandidates(body) ==
    \/ ~body.valid
    \/ body.val.t # "dict"
    \/ ~HasKey(body.val, "player")
    \/ Get(body.val, "player") = List(<<>>)

NoPlayersFound == Item("warning", "No players found. Try another name.", Null)

\* C5: for every search response with no candidate the candidate set is
\* empty, the page ends in the "No players found" state, no player-specific
\* request is issued and no exception is raised.
C5_NoCandidatesNoFault ==
    (Lookup /\ pc \notin {"load", "stopped", "input", "search", "resolve"}
       /\ RequestsTo("search") # {}
       /\ NoCandidates(requests[1].resp)) =>
        /\ pc = "done"
        /\ fault = "none"
        /\ player_options = <<>>
        /\ OnScreen(NoPlayersFound)
        /\ Len(requests) = 1

\* a profile object whose present fields have the shapes the page reads
WellTypedDetails(d) ==
    /\ d.t = "dict"
    /\ HasKey(d, "image") => Get(d, "image").t = "str"
    /\ HasKey(d, "rankings") =>
          /\ Get(d, "rankings").t = "dict"
          /\ \A k \in {"bat", "bowl", "all"} :
                HasKey(Get(d, "rankings"), k) => Get(Get(d, "rankings"), k).t = "dict"

\* the profile tab has been run, to its end or to an exception
ProfileRun == Lookup /\ LastEp = "profile" /\ pc \in {"career", "batting", "fault"}

\* C6: for every selected candidate and every profile response, an absent
\* player field (team, date of birth, role, styles, teams, birthplace, link,
\* image) is shown as N/A or its section left out, and never raises; this
\* holds for a candidate without a team name too.
C6_AbsentFieldsNeverFault ==
    (ProfileRun /\ WellTypedDetails(player_details)) =>
        /\ fault = "none"
        /\ ~HasKey(selected_player, "dob") => OnScreen(Item("write", "DOB", NA))
        /\ Truthy(player_details) =>
              \A i \in DOMAIN DetailFields :
                 ~HasKey(player_details, DetailFields[i]) =>
                     OnScreen(Item("write", DetailFields[i], NA))

\* a stats response with nothing to show: not a success, not JSON, or JSON
\* without the "headers" or "values" field
NoStats(response) ==
    \/ response.status # 200
    \/ ~response.body.valid
    \/ /\ response.body.val.t = "dict"
       /\ ~HasKey(response.body.val, "headers") \/ ~HasKey(response.body.val, "values")

\* C7: every batting or bowling fetch that is not a success, or is a success
\* whose body is not JSON or lacks the expected fields, ends in the empty
\* table and the "No ... stats available" warning, with nothing raised by
\* get_player_stats / parse_stats_table.
C7_StatsFetchDegrades ==
    Lookup =>
      \A i \in DOMAIN requests :
         (requests[i].ep \in {"batting", "bowling"} /\ NoStats(requests[i].resp)) =>
             /\ get_player_stats(requests[i].resp).exc = "none"
             /\ OnScreen(Item("warning", requests[i].ep, Str("No stats available.")))

\* ========================================================================
\* Properties of the SQL analytics page (checked under SpecQuery)
\* ========================================================================
Sql == page = "sql_queries"
DbCallsOf(op) == {i \in DOMAIN db_calls : db_calls[i].op = op}
QueryRan == DbCallsOf("read_sql") # {}
TableShown ==
    /\ \E i \in DOMAIN screen : screen[i].w = "dataframe"
    /\ OnScreen(Item("success", "Query executed successfully!", Null))
FailureShown == \E i \in DOMAIN screen : screen[i].w = "error"

\* C8: for every non-blank query text and every database outcome, running
\* the query ends with either the result table and the success message, or
\* an explicit failure message: never both, never neither, and no exception
\* leaves run_query.
C8_TableOrFailure ==
    (Sql /\ QueryRan) =>
        /\ fault = "none"
        /\ TableShown <=> ~FailureShown

\* C8 witness: a query that failed in the database, and its failure message
C8_Witness ==
    /\ Sql /\ pc = "done" /\ QueryRan
    /\ Strip(query_input) # <<>>
    /\ FailureShown /\ ~TableShown
    /\ OnScreen(Item("error", "Query failed.", Null))

\* C9: the text sent to the database is exactly the content of the text
\* area: the catalog entry's SQL string when the user has not edited it, the
\* edited text otherwise, with no trimming or rewriting on the way; and
\* running a query never modifies the catalog.
C9_TextSentVerbatim ==
    Sql =>
        /\ QUERIES = Catalog
        /\ \A i \in DbCallsOf("read_sql") :
              /\ db_calls[i].arg = query_input
              /\ ~edited => db_calls[i].arg = Catalog[query_selection]

\* C9 witness: an unedited catalog text, whose ends are whitespace, was run
C9_Witness ==
    /\ Sql /\ pc = "done" /\ QueryRan /\ ~edited
    /\ query_input = Catalog["Q3: Top 10 ODI run scorers"]
    /\ Strip(query_input) # query_input
    /\ db_calls[2].arg = query_input

\* ========================================================================
\* Properties of the dashboard as a whole (checked under Spec)
\* ========================================================================
ConnectFailed == \E i \in DbCallsOf("connect") : db_calls[i].arg # <<"connected">>

\* C10: a connectivity or credential failure ends its flow with a message
\* and no retry: when the database connection cannot be established (connect
\* raises, or the connection is not connected) exactly one connection attempt
\* is made, a message is shown and no query is executed in that page run;
\* when the API key is missing an error is shown and no HTTP request is ever
\* issued.
C10_FailuresAreFatal ==
    /\ (Sql /\ ConnectFailed) =>
          /\ pc = "done"
          /\ Cardinality(DbCallsOf("connect")) = 1
          /\ DbCallsOf("read_sql") = {}
          /\ OnScreen(Item("warning", "Could not connect to the database.", Null))
    /\ (Lookup /\ ~Truthy(API_KEY)) =>
          /\ requests = <<>>
          /\ pc \in {"load", "stopped"}
          /\ pc = "stopped" => OnScreen(Item("error", "RAPIDAPI_KEY not found", Null))

\* C10 witness: connect() returned a connection that is not connected
C10_Witness ==
    /\ Sql /\ pc = "done"
    /\ db_calls = <<DbCall("connect", <<"not connected">>)>>
    /\ OnScreen(Item("warning", "Could not connect to the database.", Null))

\* ========================================================================
\* The connection of a page run of the SQL analytics page (SpecQuery)
\* ========================================================================
Connected == \E i \in DbCallsOf("connect") : db_calls[i].arg = <<"connected">>

\* C11: in every page run where the connection was established at most one
\* query is executed, the connection is closed exactly once on every path
\* (query succeeded, query failed, blank query, button not pressed), the
\* close comes after any query execution and no query runs on a closed
\* connection.
C11_OneQueryThenClose ==
    (Sql /\ Connected) =>
        /\ Cardinality(DbCallsOf("read_sql")) <= 1
        /\ Cardinality(DbCallsOf("close")) <= 1
        /\ pc = "done" => (Cardinality(DbCallsOf("close")) = 1 /\ conn = "closed")
        /\ pc # "done" => (DbCallsOf("close") = {} /\ conn = "open")
        /\ \A i \in DbCallsOf("read_sql") : \A j \in DbCallsOf("close") : i < j

\* C11 witness: a query was executed, then the connection closed
C11_Witness ==
    /\ Sql /\ Connected /\ pc = "done" /\ pressed
    /\ Len(db_calls) = 3
    /\ db_calls[2].op = "read_sql"
    /\ db_calls[3] = DbCall("close", <<>>)
    /\ conn = "closed"

\* a text that is empty or whitespace only
Blank(text) == \A i \in DOMAIN text : text[i] \in Whitespace
PleaseEnter == Item("warning", "Please enter a query to run.", Null)

\* C18: a query text that is empty or whitespace only is never sent to the
\* database: pressing Run with such a text shows the "Please enter a query"
\* warning, run_query is not called, and the connection is still closed.
C18_BlankNeverSent ==
    Sql =>
        /\ \A i \in DbCallsOf("read_sql") : ~Blank(db_calls[i].arg)
        /\ (pressed /\ Blank(query_input) /\ pc \in {"close", "done"}) =>
              /\ OnScreen(PleaseEnter)
              /\ DbCallsOf("read_sql") = {}
              /\ pc = "done" => (conn = "closed" /\ DbCallsOf("close") # {})

\* C18 witness: Run pressed on a whitespace-only text
C18_Witness ==
    /\ Sql /\ pc = "done" /\ pressed
    /\ query_input = <<" ", " ">>
    /\ OnScreen(PleaseEnter)
    /\ db_calls = <<DbCall("connect", <<"connected">>), DbCall("close", <<>>)>>
    /\ conn = "closed"

\* ========================================================================
\* The requests of a run of the player lookup page (SpecLookup)
\* ========================================================================
Endpoints == <<"search", "profile", "career", "batting", "bowling">>
EpRank(ep) == CHOOSE k \in DOMAIN Endpoints : Endpoints[k] = ep
EpsRequested == [i \in DOMAIN requests |-> requests[i].ep]

\* the candidates of the search response of this run
SearchResponse == requests[1].resp
ResponseCandidates ==
    IF requests # <<>> /\ SearchResponse.valid /\ SearchResponse.val.t = "dict"
       /\ HasKey(SearchResponse.val, "player") /\ Get(SearchResponse.val, "player").t = "list"
    THEN Get(SearchResponse.val, "player").v
    ELSE <<>>

\* C12: a run of the lookup page issues one sequential chain of API calls
\* with no retry: the search once; the player endpoints only after it
\* returned a non-empty candidate list, each at most once and in the order
\* profile, career, batting stats, bowling stats, each call answered before
\* the next is issued.
C12_OneSequentialChain ==
    Lookup =>
        /\ \A i, j \in DOMAIN requests :
              i < j => EpRank(requests[i].ep) < EpRank(requests[j].ep)
        /\ requests # <<>> => requests[1].ep = "search"
        /\ Len(requests) > 1 => (ResponseCandidates # <<>> /\ player_options # <<>>)
        /\ pc \in {"search"} => requests = <<>>

\* C12 witness: the whole chain was issued
C12_Witness ==
    /\ Lookup /\ pc = "done"
    /\ EpsRequested = Endpoints

\* the last candidate of the response with a display name
LastNamed(name) ==
    ResponseCandidates[Max({i \in DOMAIN ResponseCandidates :
                               GetOr(ResponseCandidates[i], "name", Null) = name})]

\* C13: when candidates of a search response share a display name the
\* candidate set has exactly one entry for that name, mapped to the last
\* such candidate in the API's order, and there are as many selectable
\* candidates as distinct display names.
C13_LaterCandidateWinsName ==
    (Lookup /\ player_options # <<>>) =>
        /\ \A k, l \in DOMAIN player_options :
              player_options[k][1] = player_options[l][1] => k = l
        /\ Len(player_options) =
              Cardinality({Get(ResponseCandidates[i], "name") : i \in DOMAIN ResponseCandidates})
        /\ \A k \in DOMAIN player_options :
              player_options[k][2] = LastNamed(player_options[k][1])

\* C13 witness: two candidates named Kohli, the second one kept
C13_Witness ==
    /\ Lookup /\ pc = "details"
    /\ ResponseCandidates = <<Kohli1, Kohli2>>
    /\ player_options = << <<Str("Kohli"), Kohli2>> >>
    /\ selected_player = Kohli2

\* C19: in every run that reaches the detail view the selected player is an
\* entry of the current search response and the profile, career, batting and
\* bowling requests all use that entry's id; no request carries an id that
\* did not come from the current search response.
C19_RequestsUseSelectedId ==
    Lookup =>
        /\ selected_player # Null =>
              \E i \in DOMAIN ResponseCandidates : ResponseCandidates[i] = selected_player
        /\ \A r \in DOMAIN requests :
              requests[r].ep # "search" =>
                  /\ requests[r].arg = Get(selected_player, "id")
                  /\ \E i \in DOMAIN ResponseCandidates :
                        GetOr(ResponseCandidates[i], "id", Null) = requests[r].arg

\* C19 witness: the second of two candidates selected, four requests for it
C19_Witness ==
    /\ Lookup /\ pc = "done"
    /\ ResponseCandidates = <<Kohli2, Kohli1>>
    /\ selected_player = Kohli1
    /\ EpsRequested = Endpoints
    /\ \A r \in 2..5 : requests[r].arg = Num(1)

\* ========================================================================
\* Rankings, career and stats tabs of the player lookup page (SpecLookup)
\* ========================================================================
Disciplines == {"bat", "bowl", "all"}
RankingsOf(d) == GetOr(d, "rankings", Null)

\* the profile tab has been run on a profile object and a candidate whose
\* fields above the rankings section are all there
RankingsRun ==
    /\ ProfileRun
    /\ HasKey(selected_player, "teamName")
    /\ player_details.t = "dict" /\ Truthy(player_details)
    /\ HasKey(player_details, "image") => Get(player_details, "image").t = "str"
    /\ RankingsOf(player_details).t \in {"null", "dict"}
    /\ \A k \in Disciplines :
          (RankingsOf(player_details).t = "dict" /\ HasKey(RankingsOf(player_details), k)) =>
              Get(RankingsOf(player_details), k).t \in {"null", "dict"}

\* C14: for every profile response the rankings rendering does not fault
\* whichever level of nesting is absent: no rankings section when the
\* rankings record is absent, null or empty; with rankings present, "No
\* rankings available" for each discipline that is absent (key missing or
\* value null) and every category label with its value for each present one.
C14_RankingsNeverFault ==
    RankingsRun =>
        LET rankings == RankingsOf(player_details)
        IN /\ fault = "none"
           /\ ~Truthy(rankings) => ~OnScreen(Item("subheader", "ICC Rankings", Null))
           /\ Truthy(rankings) =>
                 \A k \in Disciplines :
                    IF HasKey(rankings, k) /\ Get(rankings, k).t = "dict"
                    THEN \A c \in DOMAIN Get(rankings, k).v :
                            OnScreen(Item("write", k,
                                List(<<Str(Get(rankings, k).v[c][1]), Get(rankings, k).v[c][2]>>)))
                    ELSE OnScreen(Item("write", k, Str("No rankings available")))

CareerListed(body) ==
    /\ body.valid /\ body.val.t = "dict" /\ HasKey(body.val, "values")
    /\ Get(body.val, "values").t = "list" /\ Len(Get(body.val, "values").v) > 0
    /\ \A k \in DOMAIN Get(body.val, "values").v : Get(body.val, "values").v[k].t = "dict"
CareerAbsent(body) ==
    \/ ~body.valid
    \/ /\ body.val.t = "dict"
       /\ ~HasKey(body.val, "values") \/ Get(body.val, "values") = List(<<>>)
CareerTable(body) ==
    LET values == Get(body.val, "values").v
    IN Frame(CareerColumns,
             [k \in DOMAIN values |->
                <<GetOr(values[k], "name", Null), GetOr(values[k], "debut", Null),
                  GetOr(values[k], "lastPlayed", Null)>>])
CareerShown == \E i \in DOMAIN screen : screen[i].w = "dataframe" /\ screen[i].a = "career"

\* C17: for every career response: an object with a non-empty "values" list
\* of K entries gives a career table of exactly K rows in the API's order
\* with the columns Format, Debut, Last Played taken from each entry's name,
\* debut and lastPlayed (null for a missing field, no fault); with "values"
\* missing or empty, or a body that is not JSON, a warning is shown instead
\* of a table; in both cases the rest of the page still renders.
C17_CareerTableOrWarning ==
    Lookup =>
      \A i \in RequestsTo("career") :
         LET body == requests[i].resp
         IN /\ CareerListed(body) =>
                  /\ OnScreen(Item("dataframe", "career", CareerTable(body)))
                  /\ Len(CareerTable(body).rows) = Len(Get(body.val, "values").v)
            /\ CareerAbsent(body) =>
                  /\ ~CareerShown
                  /\ OnScreen(IF body.valid THEN NoCareer[1] ELSE CouldNotLoad[1])
            /\ LastEp = "career" => (pc = "batting" /\ fault = "none")

\* C17 witness: two career entries, the second without debut and last played
C17_Witness ==
    /\ Lookup /\ pc = "batting" /\ LastEp = "career"
    /\ CareerListed(requests[3].resp)
    /\ OnScreen(Item("dataframe", "career",
           Frame(CareerColumns, << <<Str("Test"), Str("2011"), Str("2024")>>,
                                   <<Str("ODI"), Null, Null>> >>)))

StatsRendered(stat_type) ==
    \E i \in DOMAIN screen :
       screen[i].w \in {"dataframe", "warning"} /\ screen[i].a = stat_type

\* C20: whenever a candidate is selected the batting and the bowling stats
\* are each fetched and rendered exactly once, the profile having come back
\* empty or populated, and the two are independent: a failed or empty
\* batting response leaves the bowling table unaffected and vice versa.
C20_StatsTabsIndependent ==
    (Lookup /\ pc \in {"done", "fault"} /\ RequestsTo("batting") # {}) =>
        /\ Cardinality(RequestsTo("batting")) = 1
        /\ Cardinality(RequestsTo("bowling")) = 1
        /\ StatsRendered("batting")
        /\ StatsRendered("bowling")


\* ========================================================================
\* The catalog's SQL, executed by the database on the rows of its tables
\* ========================================================================
ExtraRows == 1      \* rows of top_odi_runs beyond the ten of LIMIT 10
MaxNulls == 1       \* rows of top_odi_runs whose runs are NULL
MaxPlayers == 2     \* players of player_format_stats

Q3Key == "Q3: Top 10 ODI run scorers"
Q20Key == "Q20: Matches & batting avg by format (players with >=20 matches)"

Min(S) == CHOOSE m \in S : \A n \in S : m <= n

\* the positions of keys that hold k, in storage order
IndexesWith(keys, k) ==
    SelectSeq([i \in DOMAIN keys |-> i], LAMBDA i : keys[i] = k)

RECURSIVE DescOrder(_, _, _)
DescOrder(keys, k, lowest) ==
    IF k < lowest THEN <<>>
    ELSE IndexesWith(keys, k) \o DescOrder(keys, k - 1, lowest)

\* ORDER BY <key> DESC: rows by falling key, equal keys in storage order
OrderByDesc(rows, keys) ==
    IF rows = <<>> THEN <<>>
    ELSE LET range == {keys[i] : i \in DOMAIN keys}
             order == DescOrder(keys, Max(range), Min(range))
         IN  [i \in DOMAIN order |-> rows[order[i]]]

\* LIMIT n
Limit(rows, n) == SubSeq(rows, 1, IF Len(rows) < n THEN Len(rows) ELSE n)

\* MySQL orders NULL below every number, so last under DESC; runs are
\* never negative
SortKey(value) == IF value = Null THEN -1 ELSE value.v[1]

Q3Limit == 10

\* SELECT player_name, runs AS total_runs, average AS batting_avg
Q3Select(row) ==
    [player_name |-> row.player_name, total_runs |-> row.runs,
     batting_avg |-> row.average]

\* Q3 without its ORDER BY clause
Q3Unordered(top_odi_runs) ==
    Limit([i \in DOMAIN top_odi_runs |-> Q3Select(top_odi_runs[i])], Q3Limit)

\* Q3: ... FROM top_odi_runs ORDER BY total_runs DESC LIMIT 10
Q3(top_odi_runs) ==
    LET selected == [i \in DOMAIN top_odi_runs |-> Q3Select(top_odi_runs[i])]
        keys == [i \in DOMAIN selected |-> SortKey(selected[i].total_runs)]
    IN  Limit(OrderByDesc(selected, keys), Q3Limit)

\* Q20's player_summary: one row per player of player_format_stats with the
\* matches of each format summed (a format without a row counts 0)
Formats == {"Test", "ODI", "T20"}

MatchesIn(player_format_stats, player, format) ==
    LET rows == {r \in player_format_stats :
                    r.player_id = player /\ r.format = format}
    IN  IF rows = {} THEN 0 ELSE (CHOOSE r \in rows : TRUE).matches_played

player_summary(player_format_stats) ==
    LET ids == {r.player_id : r \in player_format_stats}
        all == [p \in 1..Max(ids \cup {0}) |->
                  [player_id |-> p,
                   test_matches |-> MatchesIn(player_format_stats, p, "Test"),
                   odi_matches |-> MatchesIn(player_format_stats, p, "ODI"),
                   t20_matches |-> MatchesIn(player_format_stats, p, "T20")]]
    IN  SelectSeq(all, LAMBDA row : row.player_id \in ids)

TotalMatches(row) == row.test_matches + row.odi_matches + row.t20_matches

Q20MinMatches == 10

\* Q20: SELECT * FROM player_summary WHERE (total) >= 10 ORDER BY (total) DESC
Q20(player_format_stats) ==
    LET kept == SelectSeq(player_summary(player_format_stats),
                          LAMBDA row : TotalMatches(row) >= Q20MinMatches)
    IN  OrderByDesc(kept, [i \in DOMAIN kept |-> TotalMatches(kept[i])])


\* ------------------------------------------------------------------------
\* The tables the two queries read
\* ------------------------------------------------------------------------
RunValues == {1, 2}     \* career runs, in thousands

\* top_odi_runs: one row per player; nulls are the rows whose runs are NULL
TopOdiRuns(runs, nulls) ==
    [i \in DOMAIN runs |->
        [player_name |-> i,
         runs |-> IF i \in nulls THEN Null ELSE Num(runs[i]),
         average |-> Num(40)]]

NullRows(n) == {N \in SUBSET (1..n) : Cardinality(N) <= MaxNulls}

MatchCounts == {0, 6, 12}

\* player_format_stats: GROUP BY player, format leaves at most one row for
\* each pair, and none where the player has no match of the format
PlayerFormatStats(matches) ==
    {[player_id |-> pf[1], format |-> pf[2], matches_played |-> matches[pf]] :
        pf \in {x \in DOMAIN matches : matches[x] > 0}}

InitCatalog ==
    /\ page = "catalog"
    /\ pc = "execute"
    /\ screen = <<>>
    /\ fault = "none"
    /\ API_KEY = Str("key")
    /\ LookupIdle
    /\ StatsIdle
    /\ QUERIES = Catalog
    /\ conn = "none"
    /\ db_calls = <<>>
    /\ query_selection \in {Q3Key, Q20Key}
    /\ query_input = QUERIES[query_selection]
    /\ edited = FALSE
    /\ pressed = FALSE
    /\ query_result = <<>>
    /\ \/ /\ query_selection = Q3Key
          /\ \E n \in (Q3Limit - 1)..(Q3Limit + ExtraRows) :
                \E runs \in [1..n -> RunValues], nulls \in NullRows(n) :
                    database = TopOdiRuns(runs, nulls)
       \/ /\ query_selection = Q20Key
          /\ \E matches \in [(1..MaxPlayers) \X Formats -> MatchCounts] :
                database = PlayerFormatStats(matches)

\* the database executes Q3 on the rows of top_odi_runs
ExecuteQ3 ==
    /\ page = "catalog"
    /\ pc = "execute"
    /\ query_selection = Q3Key
    /\ query_result' = Q3(database)
    /\ pc' = "executed"
    /\ UNCHANGED <<page, screen, fault, statsVars, lookupVars, queryVars, database>>

\* the database executes Q20 on the rows of player_format_stats
ExecuteQ20 ==
    /\ page = "catalog"
    /\ pc = "execute"
    /\ query_selection = Q20Key
    /\ query_result' = Q20(database)
    /\ pc' = "executed"
    /\ UNCHANGED <<page, screen, fault, statsVars, lookupVars, queryVars, database>>

NextCatalog == ExecuteQ3 \/ ExecuteQ20
SpecCatalog == InitCatalog /\ [][NextCatalog]_vars


\* ========================================================================
\* Properties of the catalog's queries (checked under SpecCatalog)
\* ========================================================================
Executed(key) ==
    page = "catalog" /\ pc = "executed" /\ query_selection = key

\* the players of top_odi_runs whose runs are not NULL
PlayersWithRuns ==
    {database[i].player_name :
        i \in {j \in DOMAIN database : database[j].runs # Null}}

ReturnedPlayers == {query_result[i].player_name : i \in DOMAIN query_result}

\* C15: Q3, run on a table with at least 10 distinct players with non-null
\* runs, returns exactly 10 rows in order of non-increasing total runs, and
\* no player left out of the result has more runs than the last returned row.
C15_TopTenByRuns ==
    (Executed(Q3Key) /\ Cardinality(PlayersWithRuns) >= Q3Limit) =>
        /\ Len(query_result) = Q3Limit
        /\ \A i \in DOMAIN query_result : query_result[i].total_runs # Null
        /\ \A i \in 1..(Len(query_result) - 1) :
              query_result[i].total_runs.v[1] >= query_result[i + 1].total_runs.v[1]
        /\ \A j \in DOMAIN database :
              database[j].player_name \notin ReturnedPlayers =>
                 \/ database[j].runs = Null
                 \/ database[j].runs.v[1] <=
                        query_result[Len(query_result)].total_runs.v[1]

\* Q3 has run on eleven scorers stored in rising order of runs: the result
\* mixes both totals and leaves a scorer with runs out
C15_Witness ==
    /\ Executed(Q3Key)
    /\ Cardinality(PlayersWithRuns) > Q3Limit
    /\ database[1].runs = Num(1)
    /\ database[Len(database)].runs = Num(2)
    /\ query_result[1].total_runs # query_result[Len(query_result)].total_runs
    /\ \E j \in DOMAIN database :
          database[j].player_name \notin ReturnedPlayers /\ database[j].runs # Null

\* the least total the catalog's description of Q20 promises
DescribedMinMatches == 20

PlayerTotal(player) ==
    MatchesIn(database, player, "Test") + MatchesIn(database, player, "ODI")
        + MatchesIn(database, player, "T20")

\* C16: Q20 returns exactly the players with at least 20 matches in total
\* across Test, ODI and T20, as its catalog description states: only such
\* players, and every one of them.
C16_OnlyPlayersWithTwentyMatches ==
    Executed(Q20Key) =>
        {query_result[i].player_id : i \in DOMAIN query_result} =
            {p \in {r.player_id : r \in database} :
                PlayerTotal(p) >= DescribedMinMatches}

====
